---- MODULE Spec2Model ----
(***************************************************************************)
(* RenderTargetResourceEntry of the frame graph                            *)
(* (src/filament/src/fg/fg/RenderTargetResourceEntry.cpp): resolve,        *)
(* update, preExecuteDevirtualize, postExecuteDestroy and                  *)
(* postExecuteDevirtualize, over a table of texture entries, the resource  *)
(* nodes of the graph and the resource allocator.                          *)
(*                                                                         *)
(* Three specifications share the methods:                                 *)
(*   Spec         any caller: the five methods in any order on one entry;  *)
(*   SpecResolve  resolve alone, over a wide range of descriptors;         *)
(*   SpecFrame    one frame driven pass by pass by the frame graph.        *)
(***************************************************************************)
EXTENDS Integers, Sequences, FiniteSets, TLC

VARIABLES
    rt,             \* the render target entries, by entry id
    tex,            \* the texture entries (ResourceEntry<FrameGraphTexture>), by handle index
    resourceNodes,  \* fg.mResourceNodes: the discard intents of the pass being run
    alloc,          \* the resource allocator: handles issued, handles live, misuse seen
    ndebug,         \* TRUE in a build with NDEBUG (assert compiles to nothing)
    aborted,        \* an assert has failed (builds without NDEBUG)
    diag,           \* the last update raised the non-fatal diagnostic
    lastCall,       \* the method that ran last, and on which entry
    hist,           \* per entry: what has been called on it so far
    pc,             \* the frame graph's phase ("free" when any caller drives)
    pass,           \* the pass the frame graph is at
    todo,           \* the entries the current phase has still to visit
    refs            \* per entry: the passes that reference it

vars == <<rt, tex, resourceNodes, alloc, ndebug, aborted, diag, lastCall, hist,
          pc, pass, todo, refs>>

progVars == <<rt, tex, resourceNodes, alloc, ndebug, aborted, diag, lastCall, hist>>

driverVars == <<pc, pass, todo, refs>>

-----------------------------------------------------------------------------
(* Bounds of the model *)

\* createRenderTarget is called at most this many times in a behaviour
MaxTargets == 2

\* the number of passes of a frame
NumPasses == 3

-----------------------------------------------------------------------------
(* Program constants *)

\* FrameGraphRenderTarget::Attachments::COUNT
COUNT == 3

\* a cleared Handle<HwRenderTarget> / Handle<HwTexture>
Null == 0

\* std::numeric_limits<uint32_t>::max(); here the largest integer the model
\* checker holds, above every dimension of the model
UINT32_MAX == 2147483647

\* TargetBufferFlags flags[]
flags == <<"COLOR", "DEPTH", "STENCIL">>

\* TextureUsage usages[]
usages == <<"COLOR_ATTACHMENT", "DEPTH_ATTACHMENT", "STENCIL_ATTACHMENT">>

SAMPLEABLE == "SAMPLEABLE"

NONE == {}

AllFlags == {"COLOR", "DEPTH", "STENCIL"}

\* the handle of an imported render target, supplied from outside the allocator
ExternalTarget == MaxTargets + 1

\* the indices of the texture entries of the graph
TexIds == {1, 2}

Entries == DOMAIN rt

-----------------------------------------------------------------------------
(* Helpers *)

any(mask) == mask # {}

none(mask) == mask = {}

Min(a, b) == IF a < b THEN a ELSE b

Max(a, b) == IF a > b THEN a ELSE b

\* an invalid attachment: FrameGraphHandle with no index
NoHandle == [index |-> 0, level |-> 0]

Attachment(i, l) == [index |-> i, level |-> l]

isValid(attachment) == attachment.index # 0

\* details::FTexture::valueForLevel: the base dimension shifted right by the level
valueForLevel(level, baseLevelValue) == baseLevelValue \div (2 ^ level)

\* a default-constructed backend::TargetBufferInfo
EmptyInfo == [handle |-> Null, level |-> 0]

-----------------------------------------------------------------------------
(* The resource allocator *)

\* createRenderTarget: a fresh, non-null handle, live from now on
createRenderTarget(a, args) ==
    [a EXCEPT !.next = @ + 1,
              !.live = @ \cup {a.next + 1},
              !.lastCreate = args,
              !.emptyCreate = @ \/ none(args.attachments)]

\* destroyRenderTarget: the handle is live no more; a null handle or one that
\* is not live is a misuse, remembered
destroyRenderTarget(a, h) ==
    [a EXCEPT !.live = @ \ {h},
              !.destroyed = @ \cup {h},
              !.badDestroy = @ \/ h = Null \/ h \notin a.live]

NoArgs ==
    [attachments |-> NONE, width |-> 0, height |-> 0, samples |-> 0,
     color |-> EmptyInfo, depth |-> EmptyInfo, stencil |-> EmptyInfo]

InitAlloc ==
    [next |-> 0, live |-> {}, destroyed |-> {}, lastCreate |-> NoArgs,
     emptyCreate |-> FALSE, badDestroy |-> FALSE]

-----------------------------------------------------------------------------
(* RenderTargetResourceEntry::resolve *)

\* resolveSlot with the slot's flag set outside the validity test
resolveSlotFlagsEverySlot(acc, i, descriptor) ==
    LET attachment == descriptor.textures[i] IN
    IF isValid(attachment)
    THEN LET entry == acc.tex[attachment.index]
             usage == entry.usage \cup {usages[i]}
             samples == IF entry.samples = 0 /\ none(usage \cap {SAMPLEABLE})
                        THEN descriptor.samples
                        ELSE entry.samples
             w == valueForLevel(attachment.level, entry.width)
             h == valueForLevel(attachment.level, entry.height)
         IN [tex |-> [acc.tex EXCEPT ![attachment.index] =
                         [@ EXCEPT !.usage = usage, !.samples = samples]],
             attachments |-> acc.attachments \cup {flags[i]},
             minWidth |-> Min(acc.minWidth, w),
             maxWidth |-> Max(acc.maxWidth, w),
             minHeight |-> Min(acc.minHeight, h),
             maxHeight |-> Max(acc.maxHeight, h)]
    ELSE [acc EXCEPT !.attachments = @ \cup {flags[i]}]

\* resolveSlot without attachments |= flags[i]
resolveSlotNoFlag(acc, i, descriptor) ==
    LET attachment == descriptor.textures[i] IN
    IF isValid(attachment)
    THEN LET entry == acc.tex[attachment.index]
             usage == entry.usage \cup {usages[i]}
             samples == IF entry.samples = 0 /\ none(usage \cap {SAMPLEABLE})
                        THEN descriptor.samples
                        ELSE entry.samples
             w == valueForLevel(attachment.level, entry.width)
             h == valueForLevel(attachment.level, entry.height)
         IN [tex |-> [acc.tex EXCEPT ![attachment.index] =
                         [@ EXCEPT !.usage = usage, !.samples = samples]],
             attachments |-> acc.attachments,
             minWidth |-> Min(acc.minWidth, w),
             maxWidth |-> Max(acc.maxWidth, w),
             minHeight |-> Min(acc.minHeight, h),
             maxHeight |-> Max(acc.maxHeight, h)]
    ELSE acc

\* resolveSlot propagating the sample count whatever the texture's usage
resolveSlotIgnoresSampleable(acc, i, descriptor) ==
    LET attachment == descriptor.textures[i] IN
    IF isValid(attachment)
    THEN LET entry == acc.tex[attachment.index]
             usage == entry.usage \cup {usages[i]}
             samples == IF entry.samples = 0
                        THEN descriptor.samples
                        ELSE entry.samples
             w == valueForLevel(attachment.level, entry.width)
             h == valueForLevel(attachment.level, entry.height)
         IN [tex |-> [acc.tex EXCEPT ![attachment.index] =
                         [@ EXCEPT !.usage = usage, !.samples = samples]],
             attachments |-> acc.attachments \cup {flags[i]},
             minWidth |-> Min(acc.minWidth, w),
             maxWidth |-> Max(acc.maxWidth, w),
             minHeight |-> Min(acc.minHeight, h),
             maxHeight |-> Max(acc.maxHeight, h)]
    ELSE acc

\* one iteration of the loop over descriptor.attachments.textures
resolveSlot(acc, i, descriptor) ==
    LET attachment == descriptor.textures[i] IN
    IF isValid(attachment)
    THEN LET entry == acc.tex[attachment.index]
             usage == entry.usage \cup {usages[i]}
             samples == IF entry.samples = 0 /\ none(usage \cap {SAMPLEABLE})
                        THEN descriptor.samples
                        ELSE entry.samples
             w == valueForLevel(attachment.level, entry.width)
             h == valueForLevel(attachment.level, entry.height)
         IN [tex |-> [acc.tex EXCEPT ![attachment.index] =
                         [@ EXCEPT !.usage = usage, !.samples = samples]],
             attachments |-> acc.attachments \cup {flags[i]},
             minWidth |-> Min(acc.minWidth, w),
             maxWidth |-> Max(acc.maxWidth, w),
             minHeight |-> Min(acc.minHeight, h),
             maxHeight |-> Max(acc.maxHeight, h)]
    ELSE acc

RECURSIVE resolveLoop(_, _, _)
resolveLoop(acc, i, descriptor) ==
    IF i > COUNT
    THEN acc
    ELSE resolveLoop(resolveSlot(acc, i, descriptor), i + 1, descriptor)

\* resolveSize taking the minimum when the attachments disagree
resolveSizeMin(acc) ==
    [width |-> acc.minWidth, height |-> acc.minHeight]

\* the width and height resolve settles on, when a slot is active
resolveSize(acc) ==
    IF acc.minWidth = acc.maxWidth /\ acc.minHeight = acc.maxHeight
    THEN [width |-> acc.minWidth, height |-> acc.minHeight]
    ELSE [width |-> acc.maxWidth, height |-> acc.maxHeight]

\* resolveFinish deriving the viewport and the clear mask with no slot active too
resolveFinishAlways(r, acc) ==
    LET size == IF any(acc.attachments)
                THEN resolveSize(acc)
                ELSE [width |-> 0, height |-> 0]
    IN [r EXCEPT !.attachments = acc.attachments,
                 !.width = size.width,
                 !.height = size.height,
                 !.viewport = IF r.viewport.width = 0 /\ r.viewport.height = 0
                              THEN [width |-> size.width, height |-> size.height]
                              ELSE @,
                 !.clear = r.descriptor.clearFlags]

\* resolveFinish defaulting the viewport when either dimension is 0
resolveFinishViewportOr(r, acc) ==
    IF any(acc.attachments)
    THEN LET size == resolveSize(acc) IN
         [r EXCEPT !.attachments = acc.attachments,
                   !.width = size.width,
                   !.height = size.height,
                   !.viewport = IF r.viewport.width = 0 \/ r.viewport.height = 0
                                THEN [width |-> size.width, height |-> size.height]
                                ELSE @,
                   !.clear = r.descriptor.clearFlags]
    ELSE [r EXCEPT !.attachments = NONE, !.width = 0, !.height = 0]

\* what resolve does once the loop is over
resolveFinish(r, acc) ==
    IF any(acc.attachments)
    THEN LET size == resolveSize(acc) IN
         [r EXCEPT !.attachments = acc.attachments,
                   !.width = size.width,
                   !.height = size.height,
                   !.viewport = IF r.viewport.width = 0 /\ r.viewport.height = 0
                                THEN [width |-> size.width, height |-> size.height]
                                ELSE @,
                   !.clear = r.descriptor.clearFlags]
    ELSE [r EXCEPT !.attachments = NONE, !.width = 0, !.height = 0]

\* resolve: the entry and the texture table after the call
resolve(r, texs) ==
    LET acc == resolveLoop([tex |-> texs, attachments |-> NONE,
                            minWidth |-> UINT32_MAX, maxWidth |-> 0,
                            minHeight |-> UINT32_MAX, maxHeight |-> 0],
                           1, r.descriptor)
    IN [entry |-> resolveFinish(r, acc), tex |-> acc.tex]

-----------------------------------------------------------------------------
(* RenderTargetResourceEntry::update *)

\* the flags of the valid slots whose resource node has the given intent
discardOf(descriptor, nodes, intent) ==
    {flags[i] : i \in {j \in 1..COUNT :
                          /\ isValid(descriptor.textures[j])
                          /\ nodes[descriptor.textures[j].index][intent]}}

\* update without discardStart |= clear
updateNoClear(r, nodes) ==
    IF any(r.attachments)
    THEN [entry |-> [r EXCEPT !.discardStart =
                                  discardOf(r.descriptor, nodes, "discardStart"),
                              !.discardEnd =
                                  discardOf(r.descriptor, nodes, "discardEnd")],
          diag |-> r.target = Null]
    ELSE [entry |-> r, diag |-> FALSE]

\* update without the reset of discardStart and discardEnd
updateNoReset(r, nodes) ==
    IF any(r.attachments)
    THEN [entry |-> [r EXCEPT !.discardStart =
                                  @ \cup discardOf(r.descriptor, nodes, "discardStart")
                                    \cup r.clear,
                              !.discardEnd =
                                  @ \cup discardOf(r.descriptor, nodes, "discardEnd")],
          diag |-> r.target = Null]
    ELSE [entry |-> r, diag |-> FALSE]

\* update that ORs the clear mask into discardEnd as well
updateClearIntoEnd(r, nodes) ==
    IF any(r.attachments)
    THEN [entry |-> [r EXCEPT !.discardStart =
                                  discardOf(r.descriptor, nodes, "discardStart")
                                      \cup r.clear,
                              !.discardEnd =
                                  discardOf(r.descriptor, nodes, "discardEnd")
                                      \cup r.clear],
          diag |-> r.target = Null]
    ELSE [entry |-> r, diag |-> FALSE]

\* update without the test of any(attachments)
updateNoGuard(r, nodes) ==
    [entry |-> [r EXCEPT !.discardStart =
                             discardOf(r.descriptor, nodes, "discardStart")
                                 \cup r.clear,
                         !.discardEnd =
                             discardOf(r.descriptor, nodes, "discardEnd")],
     diag |-> r.target = Null]

update(r, nodes) ==
    IF any(r.attachments)
    THEN [entry |-> [r EXCEPT !.discardStart =
                                  discardOf(r.descriptor, nodes, "discardStart")
                                      \cup r.clear,
                              !.discardEnd =
                                  discardOf(r.descriptor, nodes, "discardEnd")],
          diag |-> r.target = Null]
    ELSE [entry |-> r, diag |-> FALSE]

-----------------------------------------------------------------------------
(* RenderTargetResourceEntry::preExecuteDevirtualize *)

\* infos[i] as the loop leaves it
infoOf(r, texs, i) ==
    LET attachmentInfo == r.descriptor.textures[i] IN
    IF isValid(attachmentInfo)
    THEN [handle |-> texs[attachmentInfo.index].texture,
          level |-> attachmentInfo.level]
    ELSE EmptyInfo

\* the asserts of the call all pass
devirtualizeAsserts(r, texs) ==
    /\ any(r.attachments)
    /\ \A i \in 1..COUNT :
          LET attachmentInfo == r.descriptor.textures[i] IN
          /\ (flags[i] \in r.attachments) = isValid(attachmentInfo)
          /\ isValid(attachmentInfo) =>
                LET entry == texs[attachmentInfo.index] IN
                /\ entry.texture # Null
                /\ attachmentInfo.level < entry.levels
                /\ entry.samples <= 1 \/ entry.samples = r.descriptor.samples

\* the arguments of createRenderTarget: infos[0], infos[1] and {}
createArgs(r, texs) ==
    [attachments |-> r.attachments, width |-> r.width, height |-> r.height,
     samples |-> r.descriptor.samples,
     color |-> infoOf(r, texs, 1), depth |-> infoOf(r, texs, 2),
     stencil |-> EmptyInfo]

\* the entry, the allocator and the abort flag after the call
preExecuteDevirtualize(r, texs, a, nd) ==
    IF r.imported
    THEN [entry |-> r, alloc |-> a, aborted |-> FALSE]
    ELSE IF ~nd /\ ~devirtualizeAsserts(r, texs)
    THEN [entry |-> r, alloc |-> a, aborted |-> TRUE]
    ELSE LET a2 == createRenderTarget(a, createArgs(r, texs)) IN
         [entry |-> [r EXCEPT !.target = a2.next], alloc |-> a2, aborted |-> FALSE]

-----------------------------------------------------------------------------
(* RenderTargetResourceEntry::postExecuteDestroy *)

\* postExecuteDestroy that drops the reference and never tells the allocator
postExecuteDestroyLeak(r, a) ==
    IF ~r.imported /\ r.target # Null
    THEN [entry |-> [r EXCEPT !.target = Null], alloc |-> a]
    ELSE [entry |-> r, alloc |-> a]

\* postExecuteDestroy without resource.target.clear()
postExecuteDestroyKeepsTarget(r, a) ==
    IF ~r.imported /\ r.target # Null
    THEN [entry |-> r, alloc |-> destroyRenderTarget(a, r.target)]
    ELSE [entry |-> r, alloc |-> a]

\* postExecuteDestroy without the test of imported
postExecuteDestroyImported(r, a) ==
    IF r.target # Null
    THEN [entry |-> [r EXCEPT !.target = Null],
          alloc |-> destroyRenderTarget(a, r.target)]
    ELSE [entry |-> r, alloc |-> a]

postExecuteDestroy(r, a) ==
    IF ~r.imported /\ r.target # Null
    THEN [entry |-> [r EXCEPT !.target = Null],
          alloc |-> destroyRenderTarget(a, r.target)]
    ELSE [entry |-> r, alloc |-> a]

-----------------------------------------------------------------------------
(* RenderTargetResourceEntry::postExecuteDevirtualize *)

\* postExecuteDevirtualize that leaves the clear mask as it is
postExecuteDevirtualizeKeepsClear(r) == r

postExecuteDevirtualize(r) == [r EXCEPT !.clear = NONE]

-----------------------------------------------------------------------------
(* The calls, as steps of the model *)

Call(op, e) == [op |-> op, e |-> e]

\* entry.resolve(fg)
Resolve(e) ==
    /\ ~aborted
    /\ LET res == resolve(rt[e], tex) IN
       /\ rt' = [rt EXCEPT ![e] = res.entry]
       /\ tex' = res.tex
    /\ hist' = [hist EXCEPT ![e].resolved = TRUE, ![e].postDevirtualized = FALSE]
    /\ lastCall' = Call("resolve", e)
    /\ UNCHANGED <<resourceNodes, alloc, ndebug, aborted, diag>>

\* entry.update(fg, pass)
Update(e) ==
    /\ ~aborted
    /\ hist[e].resolved
    /\ LET res == update(rt[e], resourceNodes) IN
       /\ rt' = [rt EXCEPT ![e] = res.entry]
       /\ diag' = res.diag
    /\ lastCall' = Call("update", e)
    /\ UNCHANGED <<tex, resourceNodes, alloc, ndebug, aborted, hist>>

\* entry.preExecuteDevirtualize(fg)
PreExecuteDevirtualize(e) ==
    /\ ~aborted
    /\ hist[e].resolved
    /\ alloc.next < MaxTargets
    /\ LET res == preExecuteDevirtualize(rt[e], tex, alloc, ndebug) IN
       /\ rt' = [rt EXCEPT ![e] = res.entry]
       /\ alloc' = res.alloc
       /\ aborted' = res.aborted
       /\ hist' = [hist EXCEPT ![e].devirtualizeCalled = TRUE,
                               ![e].creates = @ + (res.alloc.next - alloc.next)]
    /\ lastCall' = Call("preExecuteDevirtualize", e)
    /\ UNCHANGED <<tex, resourceNodes, ndebug, diag>>

\* entry.postExecuteDestroy(fg)
PostExecuteDestroy(e) ==
    /\ ~aborted
    /\ hist[e].resolved
    /\ LET res == postExecuteDestroy(rt[e], alloc) IN
       /\ rt' = [rt EXCEPT ![e] = res.entry]
       /\ alloc' = res.alloc
       /\ hist' = [hist EXCEPT ![e].destroys =
                       @ + Cardinality(res.alloc.destroyed \ alloc.destroyed)]
    /\ lastCall' = Call("postExecuteDestroy", e)
    /\ UNCHANGED <<tex, resourceNodes, ndebug, aborted, diag>>

\* entry.postExecuteDevirtualize(fg)
PostExecuteDevirtualize(e) ==
    /\ ~aborted
    /\ hist[e].resolved
    /\ rt' = [rt EXCEPT ![e] = postExecuteDevirtualize(rt[e])]
    /\ hist' = [hist EXCEPT ![e].postDevirtualized = TRUE]
    /\ lastCall' = Call("postExecuteDevirtualize", e)
    /\ UNCHANGED <<tex, resourceNodes, alloc, ndebug, aborted, diag>>

-----------------------------------------------------------------------------
(* The states after construction *)

\* the discard intents a pass can declare on the textures
Node(s, e) == [discardStart |-> s, discardEnd |-> e]

\* each texture with each intent set and unset
NodeChoices ==
    {<<Node(FALSE, FALSE), Node(FALSE, FALSE)>>,
     <<Node(TRUE, FALSE), Node(FALSE, TRUE)>>,
     <<Node(FALSE, TRUE), Node(TRUE, FALSE)>>,
     <<Node(TRUE, TRUE), Node(TRUE, TRUE)>>}

NoDiscard == <<Node(FALSE, FALSE), Node(FALSE, FALSE)>>

\* a render target entry as constructed: nothing resolved, no flags set, the
\* target null unless imported
NewEntry(descriptor, imported, viewport) ==
    [descriptor |-> descriptor, imported |-> imported,
     attachments |-> NONE, width |-> 0, height |-> 0,
     viewport |-> viewport,
     clear |-> NONE, discardStart |-> NONE, discardEnd |-> NONE,
     target |-> IF imported THEN ExternalTarget ELSE Null]

NewHist ==
    [resolved |-> FALSE, devirtualizeCalled |-> FALSE, postDevirtualized |-> FALSE,
     creates |-> 0, destroys |-> 0]

Texture(w, h, levels, samples, usage, texture) ==
    [width |-> w, height |-> h, levels |-> levels, samples |-> samples,
     usage |-> usage, texture |-> texture]

NoViewport == [width |-> 0, height |-> 0]

\* the program part of an initial state
InitProgram(entries, texs, nd) ==
    /\ rt = entries
    /\ tex = texs
    /\ resourceNodes = NoDiscard
    /\ alloc = InitAlloc
    /\ ndebug = nd
    /\ aborted = FALSE
    /\ diag = FALSE
    /\ lastCall = Call("none", 0)
    /\ hist = [e \in DOMAIN entries |-> NewHist]

-----------------------------------------------------------------------------
(* Spec: one entry, called by any caller in any order *)

FreeDescriptors ==
    [textures : {<<c, d, s>> : c \in {NoHandle, Attachment(1, 0)},
                               d \in {NoHandle, Attachment(2, 0)},
                               s \in {NoHandle, Attachment(2, 0)}},
     samples : {1, 4},
     clearFlags : {NONE, {"COLOR"}, AllFlags}]

FreeTextures ==
    {<<Texture(256, 256, 1, 0, {}, 11), Texture(256, 256, 1, s2, {}, 12)>> :
        s2 \in {0, 4}}

Init ==
    /\ \E descriptor \in FreeDescriptors, imported \in BOOLEAN,
          texs \in FreeTextures, nd \in BOOLEAN :
          InitProgram(<<NewEntry(descriptor, imported, NoViewport)>>, texs, nd)
    /\ pc = "free"
    /\ pass = 0
    /\ todo = {}
    /\ refs = <<{}>>

CallResolve == \E e \in Entries : Resolve(e) /\ UNCHANGED driverVars

CallUpdate == \E e \in Entries : Update(e) /\ UNCHANGED driverVars

CallPreExecuteDevirtualize ==
    \E e \in Entries : PreExecuteDevirtualize(e) /\ UNCHANGED driverVars

CallPostExecuteDestroy ==
    \E e \in Entries : PostExecuteDestroy(e) /\ UNCHANGED driverVars

CallPostExecuteDevirtualize ==
    \E e \in Entries : PostExecuteDevirtualize(e) /\ UNCHANGED driverVars

\* the graph moves to another pass, with its own discard intents
DeclareDiscard ==
    /\ ~aborted
    /\ \E nodes \in NodeChoices : resourceNodes' = nodes
    /\ lastCall' = Call("pass", 0)
    /\ UNCHANGED <<rt, tex, alloc, ndebug, aborted, diag, hist>>
    /\ UNCHANGED driverVars

Next ==
    \/ CallResolve
    \/ CallUpdate
    \/ CallPreExecuteDevirtualize
    \/ CallPostExecuteDestroy
    \/ CallPostExecuteDevirtualize
    \/ DeclareDiscard

Spec == Init /\ [][Next]_vars

-----------------------------------------------------------------------------
(* SpecFrame: the frame graph runs one frame. All entries are resolved, then  *)
(* for each pass in order: update, devirtualize, the pass executes, destroy,  *)
(* post-devirtualize reset.                                                   *)

Passes == 1..NumPasses

SetMin(S) == CHOOSE x \in S : \A y \in S : x <= y

SetMax(S) == CHOOSE x \in S : \A y \in S : x >= y

\* the first and the last pass that reference the entry
firstPass(e) == SetMin(refs[e])

lastPass(e) == SetMax(refs[e])

\* the descriptor names at least one texture
hasValidSlot(e) == \E i \in 1..COUNT : isValid(rt[e].descriptor.textures[i])

\* the entries each phase of a pass visits
updateSet(p) == {e \in Entries : p \in refs[e]}

devirtualizeSet(p) == {e \in Entries : firstPass(e) = p /\ hasValidSlot(e)}

destroySet(p) == {e \in Entries : lastPass(e) = p}

resetSet(p) == {e \in Entries : firstPass(e) = p}

\* the discard intents of a pass of the frame: none, or all
FrameNodes == {NoDiscard, <<Node(TRUE, TRUE), Node(TRUE, TRUE)>>}

FrameResolve ==
    /\ pc = "resolve"
    /\ \E e \in todo : Resolve(e) /\ todo' = todo \ {e}
    /\ UNCHANGED <<pc, pass, refs>>

\* the next pass begins, with its own discard intents
BeginPass ==
    /\ ~aborted
    /\ todo = {}
    /\ pc \in {"resolve", "reset"}
    /\ pass < NumPasses
    /\ pass' = pass + 1
    /\ pc' = "update"
    /\ todo' = updateSet(pass + 1)
    /\ \E nodes \in FrameNodes : resourceNodes' = nodes
    /\ lastCall' = Call("pass", 0)
    /\ UNCHANGED <<rt, tex, alloc, ndebug, aborted, diag, hist, refs>>

FrameUpdate ==
    /\ pc = "update"
    /\ \E e \in todo : Update(e) /\ todo' = todo \ {e}
    /\ UNCHANGED <<pc, pass, refs>>

StartDevirtualize ==
    /\ ~aborted
    /\ pc = "update"
    /\ todo = {}
    /\ pc' = "devirtualize"
    /\ todo' = devirtualizeSet(pass)
    /\ lastCall' = Call("phase", 0)
    /\ UNCHANGED <<rt, tex, resourceNodes, alloc, ndebug, aborted, diag, hist,
                   pass, refs>>

FrameDevirtualize ==
    /\ pc = "devirtualize"
    /\ \E e \in todo : PreExecuteDevirtualize(e) /\ todo' = todo \ {e}
    /\ UNCHANGED <<pc, pass, refs>>

\* the pass executes, with the real objects of the entries it references
ExecutePass ==
    /\ ~aborted
    /\ pc = "devirtualize"
    /\ todo = {}
    /\ pc' = "destroy"
    /\ todo' = destroySet(pass)
    /\ lastCall' = Call("execute", 0)
    /\ UNCHANGED <<rt, tex, resourceNodes, alloc, ndebug, aborted, diag, hist,
                   pass, refs>>

FrameDestroy ==
    /\ pc = "destroy"
    /\ \E e \in todo : PostExecuteDestroy(e) /\ todo' = todo \ {e}
    /\ UNCHANGED <<pc, pass, refs>>

StartReset ==
    /\ ~aborted
    /\ pc = "destroy"
    /\ todo = {}
    /\ pc' = "reset"
    /\ todo' = resetSet(pass)
    /\ lastCall' = Call("phase", 0)
    /\ UNCHANGED <<rt, tex, resourceNodes, alloc, ndebug, aborted, diag, hist,
                   pass, refs>>

FrameReset ==
    /\ pc = "reset"
    /\ \E e \in todo : PostExecuteDevirtualize(e) /\ todo' = todo \ {e}
    /\ UNCHANGED <<pc, pass, refs>>

EndFrame ==
    /\ ~aborted
    /\ pc = "reset"
    /\ todo = {}
    /\ pass = NumPasses
    /\ pc' = "done"
    /\ lastCall' = Call("done", 0)
    /\ UNCHANGED <<rt, tex, resourceNodes, alloc, ndebug, aborted, diag, hist,
                   pass, todo, refs>>

FrameDescriptors ==
    [textures : {<<NoHandle, NoHandle, NoHandle>>,
                 <<Attachment(1, 0), NoHandle, NoHandle>>,
                 <<Attachment(1, 0), Attachment(2, 0), NoHandle>>,
                 <<NoHandle, Attachment(2, 0), Attachment(2, 0)>>},
     samples : {1, 4},
     clearFlags : {NONE, {"COLOR", "DEPTH"}}]

\* a second entry that shares texture 2 with the first
SecondDescriptors ==
    [textures : {<<Attachment(2, 0), NoHandle, NoHandle>>},
     samples : {1, 4},
     clearFlags : {{"COLOR"}}]

FrameViewports == {NoViewport, [width |-> 5, height |-> 5]}

FrameTextures == <<Texture(256, 256, 1, 0, {}, 11), Texture(256, 256, 1, 0, {}, 12)>>

InitFrame ==
    /\ \E d1 \in FrameDescriptors, imported \in BOOLEAN, d2 \in SecondDescriptors,
          nd \in BOOLEAN, viewport \in FrameViewports :
          InitProgram(<<NewEntry(d1, imported, viewport),
                        NewEntry(d2, FALSE, NoViewport)>>,
                      FrameTextures, nd)
    /\ pc = "resolve"
    /\ pass = 0
    /\ todo = {1, 2}
    /\ \E r1 \in SUBSET Passes \ {{}}, r2 \in {{1}, {2, NumPasses}} :
          refs = <<r1, r2>>

NextFrame ==
    \/ FrameResolve
    \/ BeginPass
    \/ FrameUpdate
    \/ StartDevirtualize
    \/ FrameDevirtualize
    \/ ExecutePass
    \/ FrameDestroy
    \/ StartReset
    \/ FrameReset
    \/ EndFrame

SpecFrame == InitFrame /\ [][NextFrame]_vars

-----------------------------------------------------------------------------
(* SpecResolve: resolve on one entry, over descriptors of every shape *)

Dims == {256, 512}

ResolveDescriptors ==
    [textures : {<<c, d, s>> : c \in {NoHandle, Attachment(1, 0), Attachment(1, 1)},
                               d \in {NoHandle, Attachment(2, 0), Attachment(2, 1)},
                               s \in {NoHandle, Attachment(2, 0), Attachment(1, 1)}},
     samples : {1, 4},
     clearFlags : {NONE, {"COLOR", "STENCIL"}}]

ResolveTextures ==
    {<<Texture(w1, h1, 2, s1, u1, 11), Texture(w2, h2, 2, 0, {}, 12)>> :
        w1 \in Dims, h1 \in Dims, s1 \in {0, 1, 4}, u1 \in {{}, {SAMPLEABLE}},
        w2 \in Dims, h2 \in Dims}

Viewports ==
    {NoViewport, [width |-> 0, height |-> 7], [width |-> 7, height |-> 0],
     [width |-> 5, height |-> 5]}

InitResolve ==
    /\ \E descriptor \in ResolveDescriptors, texs \in ResolveTextures,
          viewport \in Viewports :
          InitProgram(<<NewEntry(descriptor, FALSE, viewport)>>, texs, FALSE)
    /\ pc = "free"
    /\ pass = 0
    /\ todo = {}
    /\ refs = <<{}>>

NextResolve == CallResolve

SpecResolve == InitResolve /\ [][NextResolve]_vars

-----------------------------------------------------------------------------
(* Properties *)

\* the valid attachments of the entry's descriptor
ValidAttachments(e) ==
    {rt[e].descriptor.textures[i] : i \in {j \in 1..COUNT :
                                             isValid(rt[e].descriptor.textures[j])}}

RECURSIVE RShift(_, _)
RShift(v, n) == IF n = 0 THEN v ELSE RShift(v \div 2, n - 1)

\* C1: since the last resolve, once postExecuteDevirtualize has run for an
\* entry, its clear mask is empty in every later state, whatever is called
\* next: an update for a later pass sees an empty clear mask.
C1_ClearOnlyOnce ==
    \A e \in Entries : hist[e].postDevirtualized => rt[e].clear = NONE

\* an update that follows postExecuteDevirtualize on a devirtualized entry
\* whose descriptor asks for a clear
C1_Witness ==
    \E e \in Entries :
        /\ hist[e].postDevirtualized
        /\ lastCall = Call("update", e)
        /\ rt[e].descriptor.clearFlags # NONE
        /\ any(rt[e].attachments)
        /\ rt[e].target # Null

\* the pass p has executed
Executed(p) == pc = "done" \/ pass > p \/ (pass = p /\ pc \in {"destroy", "reset"})

\* the devirtualize phase of the entry's first pass has visited it
DevirtualizeDone(e) ==
    \/ Executed(firstPass(e))
    \/ (pass = firstPass(e) /\ pc = "devirtualize" /\ e \notin todo)

\* the destroy phase of the entry's last pass has visited it
DestroyDone(e) ==
    \/ pc = "done"
    \/ pass > lastPass(e)
    \/ (pass = lastPass(e) /\ (pc = "reset" \/ (pc = "destroy" /\ e \notin todo)))

\* the current pass is about to execute
AboutToExecute == pc = "devirtualize" /\ todo = {} /\ ~aborted

\* one create, in the devirtualize phase of the first referencing pass; one
\* destroy, in the destroy phase of the last; a live target whenever a
\* referencing pass executes
Lifetime(e) ==
    /\ hist[e].creates = IF DevirtualizeDone(e) THEN 1 ELSE 0
    /\ hist[e].destroys = IF DestroyDone(e) THEN 1 ELSE 0
    /\ (AboutToExecute /\ pass \in refs[e]) =>
           (rt[e].target # Null /\ rt[e].target \in alloc.live)

C3_Original ==
    /\ ~alloc.badDestroy
    /\ \A e \in Entries :
           lastCall = Call("postExecuteDestroy", e) => rt[e].target = Null

\* C3 amended: the same, the target being null after postExecuteDestroy on an
\* entry that is not imported.
C3_DestroyOnce ==
    /\ ~alloc.badDestroy
    /\ \A e \in Entries :
           (lastCall = Call("postExecuteDestroy", e) /\ ~rt[e].imported)
               => rt[e].target = Null

\* postExecuteDestroy after two preExecuteDevirtualize: one handle destroyed
C3_Witness ==
    \E e \in Entries :
        /\ lastCall = Call("postExecuteDestroy", e)
        /\ ~rt[e].imported
        /\ hist[e].creates = 2
        /\ hist[e].destroys = 1
        /\ rt[e].target = Null

\* C4: an imported entry never reaches the allocator (no create, no
\* destroy) and its target is the handle supplied from outside in every state.
C4_ImportedUntouched ==
    \A e \in Entries :
        rt[e].imported =>
            /\ rt[e].target = ExternalTarget
            /\ hist[e].creates = 0
            /\ hist[e].destroys = 0
            /\ ExternalTarget \notin alloc.destroyed

\* postExecuteDestroy on an imported entry that preExecuteDevirtualize was
\* called on
C4_Witness ==
    \E e \in Entries :
        /\ rt[e].imported
        /\ hist[e].devirtualizeCalled
        /\ lastCall = Call("postExecuteDestroy", e)

\* C5: after update, every bit of the clear mask is in discardStart.
C5_ClearImpliesDiscard ==
    \A e \in Entries :
        lastCall = Call("update", e) => rt[e].clear \subseteq rt[e].discardStart

\* an update with a clear mask set and no resource node discarding at start
C5_Witness ==
    \E e \in Entries :
        /\ lastCall = Call("update", e)
        /\ rt[e].clear # NONE
        /\ resourceNodes = NoDiscard
        /\ rt[e].discardStart = rt[e].clear

\* C6: with at least one valid slot, resolve sets width to the maximum and
\* height to the maximum, each on its own, of the valid slots' texture
\* dimensions shifted right by the slot's level.
C6_MaxOfBounds ==
    \A e \in Entries :
        (lastCall = Call("resolve", e) /\ hasValidSlot(e)) =>
            /\ rt[e].width =
                   SetMax({RShift(tex[a.index].width, a.level) : a \in ValidAttachments(e)})
            /\ rt[e].height =
                   SetMax({RShift(tex[a.index].height, a.level) : a \in ValidAttachments(e)})

\* color 512x256 and depth 256x512 resolve to 512x512
C6_Witness ==
    /\ lastCall = Call("resolve", 1)
    /\ rt[1].descriptor.textures[1] = Attachment(1, 0)
    /\ rt[1].descriptor.textures[2] = Attachment(2, 0)
    /\ tex[1].width = 512 /\ tex[1].height = 256
    /\ tex[2].width = 256 /\ tex[2].height = 512
    /\ rt[1].width = 512 /\ rt[1].height = 512

C8_MaskIsValidity ==
    \A e \in Entries :
        hist[e].resolved =>
            \A i \in 1..COUNT :
                (flags[i] \in rt[e].attachments) <=> isValid(rt[e].descriptor.textures[i])

\* depth and stencil valid, color not, after a destroy
C8_Witness ==
    \E e \in Entries :
        /\ rt[e].attachments = {"DEPTH", "STENCIL"}
        /\ lastCall = Call("postExecuteDestroy", e)
        /\ hist[e].destroys > 0

\* C9 as stated: for every entry, imported or not, a non-null target
\* implies a non-empty mask, and createRenderTarget never gets an empty mask.
C9_Original ==
    /\ ~alloc.emptyCreate
    /\ \A e \in Entries : rt[e].target # Null => any(rt[e].attachments)

\* C9 amended: the same, for the entries that are not imported.
C9_TargetImpliesSlots ==
    /\ ~alloc.emptyCreate
    /\ \A e \in Entries :
           (~rt[e].imported /\ rt[e].target # Null) => any(rt[e].attachments)

\* a pass has executed with the real target of an entry that is not imported
C9_Witness ==
    \E e \in Entries :
        /\ ~rt[e].imported
        /\ rt[e].target # Null
        /\ any(rt[e].attachments)
        /\ lastCall = Call("execute", 0)

\* C10 as stated: preExecuteDevirtualize on an entry that is not imported and
\* already has a target stops with a fatal assertion, asks the allocator for
\* nothing and leaves the target as it is.
C10_Claim ==
    [][\A e \in Entries :
          (/\ lastCall' = Call("preExecuteDevirtualize", e)
           /\ ~rt[e].imported
           /\ rt[e].target # Null)
              => (aborted' /\ alloc' = alloc /\ rt'[e].target = rt[e].target)]_vars

\* the binding createRenderTarget was last given for slot i
BindingOf(i) ==
    IF i = 1 THEN alloc.lastCreate.color
    ELSE IF i = 2 THEN alloc.lastCreate.depth
    ELSE alloc.lastCreate.stencil

\* C11 as stated: when preExecuteDevirtualize creates the composite object,
\* the binding of every active slot, stencil included, carries the real handle
\* of the slot's texture and the slot's level, every inactive slot has an
\* empty binding, and the call passes the mask, the resolved width and height
\* and the descriptor's sample count.
C11_Claim ==
    \A e \in Entries :
        (lastCall = Call("preExecuteDevirtualize", e) /\ ~rt[e].imported /\ ~aborted) =>
            /\ alloc.lastCreate.attachments = rt[e].attachments
            /\ alloc.lastCreate.width = rt[e].width
            /\ alloc.lastCreate.height = rt[e].height
            /\ alloc.lastCreate.samples = rt[e].descriptor.samples
            /\ \A i \in 1..COUNT :
                   BindingOf(i) =
                       IF flags[i] \in rt[e].attachments
                       THEN [handle |-> tex[rt[e].descriptor.textures[i].index].texture,
                             level |-> rt[e].descriptor.textures[i].level]
                       ELSE EmptyInfo

\* the pass that declared the entry's render target: the first that references it
declaringPass(e) == firstPass(e)

\* C12 as stated: in update on an entry with an active slot, run before
\* devirtualize as the frame orders them, the diagnostic is raised exactly
\* when the pass is not the one that declared the render target, and the
\* discard flags are computed either way.
C12_Claim ==
    \A e \in Entries :
        (lastCall = Call("update", e) /\ any(rt[e].attachments)) =>
            /\ diag <=> pass # declaringPass(e)
            /\ rt[e].clear \subseteq rt[e].discardStart
            /\ rt[e].discardEnd \subseteq rt[e].attachments

\* the resource node update reads for slot i of the entry
NodeOfSlot(e, i) == resourceNodes[rt[e].descriptor.textures[i].index]

\* C13: after update on an entry with an active slot, a flag is in
\* discardStart exactly when its slot is active and the slot's resource node
\* discards at start, or the flag is in the clear mask; a flag is in
\* discardEnd exactly when its slot is active and the node discards at end.
\* Nothing of the flags of an earlier pass remains.
C13_DiscardFlags ==
    \A e \in Entries :
        (lastCall = Call("update", e) /\ any(rt[e].attachments)) =>
            \A i \in 1..COUNT :
                /\ flags[i] \in rt[e].discardStart <=>
                       \/ (flags[i] \in rt[e].attachments /\ NodeOfSlot(e, i).discardStart)
                       \/ flags[i] \in rt[e].clear
                /\ flags[i] \in rt[e].discardEnd <=>
                       (flags[i] \in rt[e].attachments /\ NodeOfSlot(e, i).discardEnd)

\* an update whose pass discards one slot at start and the other at end,
\* with the clear mask already emptied by an earlier pass
C13_Witness ==
    \E e \in Entries :
        /\ lastCall = Call("update", e)
        /\ hist[e].postDevirtualized
        /\ rt[e].attachments = {"COLOR", "DEPTH"}
        /\ rt[e].discardStart = {"COLOR"}
        /\ rt[e].discardEnd = {"DEPTH"}

\* the valid slots of the entry that reference texture t
SlotsOf(e, t) ==
    {i \in 1..COUNT : /\ isValid(rt[e].descriptor.textures[i])
                      /\ rt[e].descriptor.textures[i].index = t}

\* C14: resolve adds to each referenced texture's usage the attachment usage
\* of the slots that reference it and removes nothing; it sets the texture's
\* sample count to the render target's exactly when the count was 0 and the
\* usage does not include SAMPLEABLE, and keeps it otherwise; a texture no
\* valid slot references is unchanged.
C14_UsageAndSamples ==
    [][\A e \in Entries :
          lastCall' = Call("resolve", e) =>
              \A t \in TexIds :
                  /\ tex'[t].usage = tex[t].usage \cup {usages[i] : i \in SlotsOf(e, t)}
                  /\ tex'[t].samples =
                         IF /\ SlotsOf(e, t) # {}
                            /\ tex[t].samples = 0
                            /\ SAMPLEABLE \notin tex'[t].usage
                         THEN rt[e].descriptor.samples
                         ELSE tex[t].samples
                  /\ SlotsOf(e, t) = {} => tex'[t] = tex[t]
                  /\ tex'[t].width = tex[t].width
                  /\ tex'[t].height = tex[t].height]_vars

\* after resolve with 4 samples: texture 2, declared with no sample count,
\* has 4; texture 1, sampled by shaders, still has none
C14_Witness ==
    /\ lastCall = Call("resolve", 1)
    /\ rt[1].descriptor.samples = 4
    /\ "COLOR_ATTACHMENT" \in tex[1].usage
    /\ SAMPLEABLE \in tex[1].usage
    /\ tex[1].samples = 0
    /\ "DEPTH_ATTACHMENT" \in tex[2].usage
    /\ tex[2].samples = 4

\* C15 as stated: with every entry resolved, in whatever order, when
\* preExecuteDevirtualize runs on an entry that is not imported, each valid
\* attachment whose texture has more than one sample has the render target's
\* sample count, and the assert on it does not fail; the textures are declared
\* with no sample count and may be attached to several entries.
C15_Claim ==
    \A e \in Entries :
        (hist[e].devirtualizeCalled /\ ~rt[e].imported) =>
            /\ ~aborted
            /\ \A a \in ValidAttachments(e) :
                   tex[a.index].samples > 1 =>
                       tex[a.index].samples = rt[e].descriptor.samples

\* C16: update on an entry with no active slot changes nothing of the entry
\* (discardStart, discardEnd, the clear mask, the target), of the textures or
\* of the allocator, and raises no diagnostic.
C16_UpdateNoSlot ==
    [][\A e \in Entries :
          (lastCall' = Call("update", e) /\ none(rt[e].attachments)) =>
              /\ rt'[e] = rt[e]
              /\ ~diag'
              /\ tex' = tex
              /\ alloc' = alloc]_vars

\* an update on a resolved entry with no active slot and a null target, in a
\* pass that discards
C16_Witness ==
    \E e \in Entries :
        /\ lastCall = Call("update", e)
        /\ hist[e].resolved
        /\ none(rt[e].attachments)
        /\ rt[e].target = Null
        /\ resourceNodes # NoDiscard
        /\ ~diag

\* C17: with a valid slot, resolve sets the viewport to the resolved width
\* and height exactly when the viewport was 0 by 0 before the call, leaves a
\* viewport with a non-zero dimension as it was, and sets the clear mask to
\* the descriptor's clear flags either way.
C17_ViewportAndClear ==
    [][\A e \in Entries :
          (lastCall' = Call("resolve", e) /\ hasValidSlot(e)) =>
              /\ rt'[e].viewport =
                     IF rt[e].viewport.width = 0 /\ rt[e].viewport.height = 0
                     THEN [width |-> rt'[e].width, height |-> rt'[e].height]
                     ELSE rt[e].viewport
              /\ rt'[e].clear = rt[e].descriptor.clearFlags]_vars

\* after resolve, a viewport of 0 by 7 is still 0 by 7 and the clear mask is
\* the one requested
C17_Witness ==
    /\ lastCall = Call("resolve", 1)
    /\ any(rt[1].attachments)
    /\ rt[1].width = 256
    /\ rt[1].viewport = [width |-> 0, height |-> 7]
    /\ rt[1].clear = {"COLOR", "STENCIL"}

\* C18: after update on an entry with an active slot, discardEnd holds bits
\* of active slots only, and discardStart bits of active slots or of the
\* clear mask only.
C18_DiscardWithinSlots ==
    \A e \in Entries :
        (lastCall = Call("update", e) /\ any(rt[e].attachments)) =>
            /\ rt[e].discardEnd \subseteq rt[e].attachments
            /\ rt[e].discardStart \subseteq (rt[e].attachments \cup rt[e].clear)

\* an update that leaves in discardStart the bit of an inactive slot, from
\* the clear mask, while the pass discards at end
C18_Witness ==
    \E e \in Entries :
        /\ lastCall = Call("update", e)
        /\ "COLOR" \notin rt[e].attachments
        /\ "COLOR" \in rt[e].discardStart
        /\ rt[e].discardEnd # NONE

====
